---- MODULE Spec2Model ----
(***************************************************************************)
(* The TYC brief backend: the asynchronous job pipeline                    *)
(*   intake  (src/unnamed/part_003, "api/upload.js" with the jobs table)   *)
(*   worker  (src/api/process-job.js)                                      *)
(*   status  (src/api/status.js)                                           *)
(* and the stateless chat handler (src/unnamed/part_006, "api/chat.js").   *)
(*                                                                         *)
(* Every handler invocation is a process.  Each `await` on the job store,  *)
(* the blob store or the summarization service is one atomic step of the   *)
(* external service followed by the handler's local code up to its next    *)
(* await; sending the HTTP response is a step of its own, so that other    *)
(* invocations can run between a store write and the response.             *)
(*                                                                         *)
(* Store calls whose error result the code inspects (select, download,     *)
(* upload, insert, status lookup) may fail.  The worker's `update` calls   *)
(* return their error in a value the code discards; they are modelled as   *)
(* applied.                                                                *)
(***************************************************************************)
EXTENDS Integers, Sequences, FiniteSets, TLC

\* ------------------------------------------------------------------ bounds
MaxUploads == 2
NumWorkers == 2
MaxBriefs == 2

Requests == 1 .. MaxUploads
Workers == 1 .. NumWorkers
Callers == 1 .. MaxBriefs
BriefIds == 1 .. MaxBriefs

\* ------------------------------------------------------------------ values
Null == "NULL"
\* A column that was never written (SQL NULL) in a timestamp column.
NoTime == -1

\* A file is its name, as the parts between dots ("a.pdf", "b.DOCX", "notes"),
\* and what its bytes are: no bytes at all (which no parser accepts), a
\* document whose text is only white space, a document with text.
\* The uploaded files: one for each way the worker's extraction can end (text,
\* white space only, parser exception caught, parser exception thrown), the
\* files without bytes under a known and under an unknown extension.
Files ==
    { [name |-> <<"a", "pdf">>, data |-> "text"],
      [name |-> <<"b", "DOCX">>, data |-> "blank"],
      [name |-> <<"a", "pdf">>, data |-> "zero"],
      [name |-> <<"notes">>, data |-> "zero"] }
NoFile == [name |-> <<>>, data |-> "none"]

JobStatuses == { "pending", "processing", "done", "failed" }

VARIABLES
    jobs,       \* the `jobs` table: request/job id -> row, or NoJob
    uploads,    \* the `uploads` bucket: set of [path, data]
    intake,     \* the intake invocation
    worker,     \* the worker invocations, each run once
    statusRes,  \* the responses to the latest requests while those are status
                \* requests: the last one and the one before it
                \* (NoStatus once another handler has taken a step)
    chat,       \* the chat invocation
    sync,       \* the invocations of the synchronous upload handler, each run once
    BRIEF_STORE \* the in-memory map of that handler's module: briefId -> entry

vars == <<jobs, uploads, intake, worker, statusRes, chat, sync, BRIEF_STORE>>

\* ------------------------------------------------------------------ helpers
\* The record a 200 response of the status handler carries, or NoRecord.
NoRecord ==
    [id |-> 0, status |-> Null, brief |-> Null, error |-> Null, updated_at |-> NoTime]

\* No status response.
NoAnswer ==
    [jobId |-> 0, code |-> 0, error |-> Null, record |-> NoRecord, origin |-> Null]

\* No status request is the latest request.
NoStatus == [prev |-> NoAnswer, last |-> NoAnswer]

\* const ALLOWED_ORIGIN = process.env.SITE_ORIGIN || '*'
AllowedOrigin == "*"

\* An HTTP response of the intake handler: the status code, the fields of its
\* JSON body and the Access-Control-Allow-Origin header, which the handler sets
\* before anything else.
Res(code, error, jobId) ==
    [code |-> code, error |-> error, jobId |-> jobId, origin |-> AllowedOrigin]
NoRes == Res(0, Null, 0)

ToLowerCase(s) ==
    CASE s = "DOCX" -> "docx"
      [] s = "PDF" -> "pdf"
      [] s = "DOC" -> "doc"
      [] OTHER -> s

\* job.filename.split('.').pop().toLowerCase()
Ext(filename) == ToLowerCase(filename[Len(filename)])

\* pdfParse(buf) / mammoth.extractRawText({buffer}): the text, or "THROW".
ParseDocument(data) ==
    CASE data = "text" -> "Facts of the case"
      [] data = "blank" -> "  "
      [] OTHER -> "THROW"

\* String.prototype.trim().length === 0
TrimIsEmpty(text) == text \in { "", "  " }

\* new Date().toISOString(): the clock, in units that tell any two inserts
\* apart (it has advanced by one whenever a row has been inserted).
Now == Cardinality({ j \in Requests : jobs[j].status # "absent" })

\* ------------------------------------------------------------------ intake
\* src/unnamed/part_003 (the asynchronous upload handler)

\* The intake invocation between requests; n counts the requests received.
IdleIntake(n) ==
    [ pc |-> "idle", method |-> Null, file |-> NoFile, jobId |-> 0, res |-> NoRes,
      n |-> n ]

Methods == { "POST", "GET", "OPTIONS" }

\* What the client sends as the multipart body.
Uploads ==
    { [kind |-> "malformed", file |-> NoFile], [kind |-> "nofile", file |-> NoFile] }
        \cup { [kind |-> "file", file |-> f] : f \in Files }

\* form.parse(req, (err, fields, files) => ...): what the callback receives.
\* The form is built with the library's default options; whether a part with no
\* bytes is handed over as a file or reported as an error is the library
\* version's choice, so both are possible.
FormParse(upload) ==
    CASE upload.kind = "malformed" -> { "err" }
      [] upload.kind = "nofile" -> { "nofile" }
      [] upload.file.data = "zero" -> { "err", "file" }
      [] OTHER -> { "file" }

\* `${jobId}/${filename}`
Key(jobId, filename) == <<jobId, filename>>

\* The row inserted as already being processed.
NewJob_Processing(jobId, filename, t) ==
    [ id |-> jobId, filename |-> filename, path |-> <<jobId, filename>>,
      status |-> "processing", brief |-> Null, error |-> Null,
      created_at |-> t, updated_at |-> -1 ]

\* { id, filename, path, status: 'pending', created_at }
NewJob(jobId, filename, t) ==
    [ id |-> jobId, filename |-> filename, path |-> Key(jobId, filename),
      status |-> "pending", brief |-> Null, error |-> Null,
      created_at |-> t, updated_at |-> NoTime ]

\* The slot of a row that was never inserted.
NoJob ==
    [ id |-> 0, filename |-> <<>>, path |-> <<>>, status |-> "absent",
      brief |-> Null, error |-> Null, created_at |-> NoTime, updated_at |-> NoTime ]

Exists(j) == jobs[j].status # "absent"

\* 'job-' + randomUUID(): an identifier no earlier request was given.
FreshId == intake.n + 1

IntakeReceive(method, upload, parsed) ==
    /\ intake.pc = "idle"
    /\ intake.n < MaxUploads
    /\ parsed \in FormParse(upload)
    /\ intake' =
          IF method = "OPTIONS" THEN
              [intake EXCEPT !.method = method, !.pc = "respond", !.n = @ + 1,
                             !.res = Res(204, Null, 0)]
          ELSE IF method # "POST" THEN
              [intake EXCEPT !.method = method, !.pc = "respond", !.n = @ + 1,
                             !.res = Res(405, "Method not allowed", 0)]
          ELSE IF parsed = "err" THEN
              [intake EXCEPT !.method = method, !.pc = "respond", !.n = @ + 1,
                             !.file = upload.file,
                             !.res = Res(400, "Invalid upload", 0)]
          ELSE IF parsed = "nofile" THEN
              [intake EXCEPT !.method = method, !.pc = "respond", !.n = @ + 1,
                             !.res = Res(400, "No file uploaded", 0)]
          ELSE
              [intake EXCEPT !.method = method, !.pc = "upload", !.n = @ + 1,
                             !.file = upload.file,
                             !.jobId = FreshId]
    /\ UNCHANGED <<jobs, uploads, worker, chat, sync, BRIEF_STORE>>
    /\ statusRes' = NoStatus

StorageOutcomes == { "ok", "error", "throw" }

\* supabase.storage.from('uploads').upload(key, buffer, { upsert: false })
IntakeUpload(outcome) ==
    /\ intake.pc = "upload"
    /\ LET key == Key(intake.jobId, intake.file.name)
           taken == \E b \in uploads : b.path = key
       IN  IF outcome = "throw" THEN
               /\ intake' = [intake EXCEPT !.pc = "respond",
                                           !.res = Res(500, "Server error", 0)]
               /\ UNCHANGED uploads
           ELSE IF outcome = "error" \/ taken THEN
               /\ intake' = [intake EXCEPT !.pc = "respond",
                                           !.res = Res(500, "Storage upload failed", 0)]
               /\ UNCHANGED uploads
           ELSE
               /\ uploads' = uploads \cup { [path |-> key, data |-> intake.file.data] }
               /\ intake' = [intake EXCEPT !.pc = "insert"]
    /\ UNCHANGED <<jobs, worker, chat, sync, BRIEF_STORE>>
    /\ statusRes' = NoStatus

InsertOutcomes == { "ok", "error" }

\* The insert whose failure removes the blob again.
IntakeInsert_Rollback(outcome) ==
    /\ intake.pc = "insert"
    /\ IF outcome = "error" \/ Exists(intake.jobId) THEN
           /\ intake' = [intake EXCEPT !.pc = "respond",
                                       !.res = Res(500, "Job create failed", 0)]
           /\ uploads' = { b \in uploads : b.path # Key(intake.jobId, intake.file.name) }
           /\ UNCHANGED jobs
       ELSE
           /\ jobs' = [jobs EXCEPT ![intake.jobId] =
                          NewJob(intake.jobId, intake.file.name, Now)]
           /\ intake' = [intake EXCEPT !.pc = "respond",
                                       !.res = Res(200, Null, intake.jobId)]
           /\ UNCHANGED uploads
    /\ UNCHANGED <<worker, chat, sync, BRIEF_STORE>>
    /\ statusRes' = NoStatus

\* supabase.from('jobs').insert([{ id, filename, path, status, created_at }])
IntakeInsert(outcome) ==
    /\ intake.pc = "insert"
    /\ IF outcome = "error" \/ Exists(intake.jobId) THEN
           /\ intake' = [intake EXCEPT !.pc = "respond",
                                       !.res = Res(500, "Job create failed", 0)]
           /\ UNCHANGED jobs
       ELSE
           /\ jobs' = [jobs EXCEPT ![intake.jobId] =
                          NewJob(intake.jobId, intake.file.name, Now)]
           /\ intake' = [intake EXCEPT !.pc = "respond",
                                       !.res = Res(200, Null, intake.jobId)]
    /\ UNCHANGED <<uploads, worker, chat, sync, BRIEF_STORE>>
    /\ statusRes' = NoStatus

\* res.status(...).json(...) / .end(): the invocation is over, and the platform
\* may start the next one.
IntakeRespond ==
    /\ intake.pc = "respond"
    /\ intake' = IdleIntake(intake.n)
    /\ UNCHANGED <<jobs, uploads, worker, chat, sync, BRIEF_STORE>>
    /\ statusRes' = NoStatus

\* ------------------------------------------------------------------ worker
\* src/api/process-job.js

\* A worker response: status code, the error / message / jobId of its body and
\* the Access-Control-Allow-Origin header, set before anything else.
WorkerRes(code, error, message, jobId) ==
    [ code |-> code, error |-> error, message |-> message, jobId |-> jobId,
      origin |-> AllowedOrigin ]

NoUp == [ok |-> FALSE, kind |-> "none", body |-> Null]

IdleWorker ==
    [ pc |-> "idle", method |-> Null, job |-> NoJob, text |-> Null,
      up |-> NoUp, fetched |-> FALSE, res |-> WorkerRes(0, Null, Null, 0) ]

\* What the chat-completions endpoint can answer to fetch():
\*   a transport failure (fetch rejects), a non-2xx response with or without a
\*   readable body, a 2xx response whose body is not JSON, a 2xx response
\*   without choices[0].message.content, a 2xx response with the content.
Completions ==
    { [ok |-> FALSE, kind |-> "reject", body |-> Null],
      [ok |-> FALSE, kind |-> "status", body |-> "rate limited"],
      [ok |-> FALSE, kind |-> "status", body |-> ""],
      [ok |-> TRUE, kind |-> "notjson", body |-> Null],
      [ok |-> TRUE, kind |-> "nochoice", body |-> Null],
      [ok |-> TRUE, kind |-> "content", body |-> "Facts Issues Holding"] }

\* The query without its status filter: the oldest row of all.
OldestPending_AnyStatus ==
    { j \in Requests :
        /\ Exists(j)
        /\ \A k \in Requests : Exists(k) => jobs[j].created_at <= jobs[k].created_at }

\* .eq('status', 'pending').order('created_at', { ascending: true }).limit(1):
\* the rows the query can return first (rows of equal created_at in any order).
OldestPending ==
    { j \in Requests :
        /\ jobs[j].status = "pending"
        /\ \A k \in Requests :
              jobs[k].status = "pending" => jobs[j].created_at <= jobs[k].created_at }

\* The update without its .eq('id', jobId) filter: every row is written.
Update_AllRows(jobId, status, brief, error) ==
    [j \in Requests |->
        IF Exists(j)
        THEN [jobs[j] EXCEPT !.status = status,
                             !.brief = IF brief = Null THEN @ ELSE brief,
                             !.error = IF error = Null THEN @ ELSE error,
                             !.updated_at = Now]
        ELSE jobs[j]]

\* supabase.from('jobs').update(fields).eq('id', jobId)
Update(jobId, status, brief, error) ==
    [jobs EXCEPT ![jobId] =
        IF Exists(jobId)
        THEN [@ EXCEPT !.status = status,
                       !.brief = IF brief = Null THEN @ ELSE brief,
                       !.error = IF error = Null THEN @ ELSE error,
                       !.updated_at = Now]
        ELSE @]

WorkerStart(w, method, outcome, pick) ==
    /\ worker[w].pc = "idle"
    /\ IF method # "OPTIONS" /\ outcome = "ok"
       THEN IF OldestPending = {} THEN pick = 0 ELSE pick \in OldestPending
       ELSE pick = 0
    /\ worker' = [worker EXCEPT ![w] =
          IF method = "OPTIONS" THEN
              [@ EXCEPT !.method = method, !.pc = "respond",
                        !.res = WorkerRes(204, Null, Null, 0)]
          ELSE IF outcome = "error" THEN
              [@ EXCEPT !.method = method, !.pc = "respond",
                        !.res = WorkerRes(500, "job fetch failed", Null, 0)]
          ELSE IF pick = 0 THEN
              [@ EXCEPT !.method = method, !.pc = "respond",
                        !.res = WorkerRes(200, Null, "no pending jobs", 0)]
          ELSE
              [@ EXCEPT !.method = method, !.pc = "claim", !.job = jobs[pick]]]
    /\ UNCHANGED <<jobs, uploads, intake, chat, sync, BRIEF_STORE>>
    /\ statusRes' = NoStatus

\* update({ status: 'processing', updated_at })
WorkerMarkProcessing(w) ==
    /\ worker[w].pc = "claim"
    /\ jobs' = Update(worker[w].job.id, "processing", Null, Null)
    /\ worker' = [worker EXCEPT ![w].pc = "download"]
    /\ UNCHANGED <<uploads, intake, chat, sync, BRIEF_STORE>>
    /\ statusRes' = NoStatus

\* update({ status: 'failed', error: JSON.stringify(dlErr) }); 500
WorkerFailDownload(w) ==
    /\ worker[w].pc = "fail_download"
    /\ jobs' = Update(worker[w].job.id, "failed", Null, "{download error}")
    /\ worker' = [worker EXCEPT ![w].pc = "respond",
                                ![w].res = WorkerRes(500, "download failed", Null, 0)]
    /\ UNCHANGED <<uploads, intake, chat, sync, BRIEF_STORE>>
    /\ statusRes' = NoStatus

\* The extraction by extension: the text, or "THROW" when the parser's
\* exception leaves the handler's try block.
ExtractText(filename, buf) ==
    LET ext == Ext(filename)
    IN  IF ext = "pdf" THEN ParseDocument(buf)
        ELSE IF ext = "docx" \/ ext = "doc" THEN ParseDocument(buf)
        ELSE IF ParseDocument(buf) = "THROW" THEN "" ELSE ParseDocument(buf)

\* The test without the trim().
NoTextExtracted_NoTrim(text) == text = ""

\* !extractedText || extractedText.trim().length === 0
NoTextExtracted(text) == text = "" \/ TrimIsEmpty(text)

\* supabase.storage.from('uploads').download(path), then the extraction and
\* the empty-text test, which touch nothing shared.
WorkerDownload(w, outcome) ==
    /\ worker[w].pc = "download"
    /\ LET found == { b \in uploads : b.path = worker[w].job.path }
       IN  IF outcome = "error" \/ found = {}
           THEN worker' = [worker EXCEPT ![w].pc = "fail_download"]
           ELSE \E b \in found :
                  LET text == ExtractText(worker[w].job.filename, b.data)
                  IN  worker' = [worker EXCEPT ![w] =
                         IF text = "THROW" THEN
                             [@ EXCEPT !.pc = "respond",
                                       !.res = WorkerRes(500, "worker error", Null, 0)]
                         ELSE IF NoTextExtracted(text) THEN
                             [@ EXCEPT !.pc = "fail_notext", !.text = text]
                         ELSE
                             [@ EXCEPT !.pc = "summarize", !.text = text]]
    /\ UNCHANGED <<jobs, uploads, intake, chat, sync, BRIEF_STORE>>
    /\ statusRes' = NoStatus

\* update({ status: 'failed', error: 'no text extracted' }); 200
WorkerFailNoText(w) ==
    /\ worker[w].pc = "fail_notext"
    /\ jobs' = Update(worker[w].job.id, "failed", Null, "no text extracted")
    /\ worker' = [worker EXCEPT ![w].pc = "respond",
                                ![w].res = WorkerRes(200, "no text extracted", Null, 0)]
    /\ UNCHANGED <<uploads, intake, chat, sync, BRIEF_STORE>>
    /\ statusRes' = NoStatus

\* fetch('https://api.openai.com/v1/chat/completions', ...) and the reading of
\* its body with .text() or .json()
WorkerSummarize(w, resp) ==
    /\ worker[w].pc = "summarize"
    /\ worker' = [worker EXCEPT ![w] =
          IF resp.kind \in { "reject", "notjson" } THEN
              [@ EXCEPT !.pc = "respond", !.fetched = TRUE, !.up = resp,
                        !.res = WorkerRes(500, "worker error", Null, 0)]
          ELSE IF ~resp.ok THEN
              [@ EXCEPT !.pc = "fail_upstream", !.fetched = TRUE, !.up = resp]
          ELSE
              [@ EXCEPT !.pc = "mark_done", !.fetched = TRUE, !.up = resp]]
    /\ UNCHANGED <<jobs, uploads, intake, chat, sync, BRIEF_STORE>>
    /\ statusRes' = NoStatus

\* The diagnostic taken to be the handler's own message.
UpstreamError_Generic(resp) == "OpenAI call failed"

\* const txt = await aiRes.text()
UpstreamError(resp) == resp.body

\* update({ status: 'failed', error: txt }); 500
WorkerFailUpstream(w) ==
    /\ worker[w].pc = "fail_upstream"
    /\ jobs' = Update(worker[w].job.id, "failed", Null, UpstreamError(worker[w].up))
    /\ worker' = [worker EXCEPT ![w].pc = "respond",
                                ![w].res = WorkerRes(500, "OpenAI call failed", Null, 0)]
    /\ UNCHANGED <<uploads, intake, chat, sync, BRIEF_STORE>>
    /\ statusRes' = NoStatus

\* The brief taken to be the whole response, serialized.
BriefOf_WholeJson(resp) == "{json}"

\* json.choices[0].message.content || JSON.stringify(json)
BriefOf(resp) ==
    IF resp.kind = "content" /\ resp.body # "" THEN resp.body ELSE "{json}"

\* update({ status: 'done', brief }); 200 { jobId, status: 'done' }
WorkerMarkDone(w) ==
    /\ worker[w].pc = "mark_done"
    /\ jobs' = Update(worker[w].job.id, "done", BriefOf(worker[w].up), Null)
    /\ worker' = [worker EXCEPT ![w].pc = "respond",
                                ![w].res = WorkerRes(200, Null, Null, worker[w].job.id)]
    /\ UNCHANGED <<uploads, intake, chat, sync, BRIEF_STORE>>
    /\ statusRes' = NoStatus

\* res.status(...).json(...) / .end(): the invocation is over.
WorkerRespond(w) ==
    /\ worker[w].pc = "respond"
    /\ worker' = [worker EXCEPT ![w].pc = "finished"]
    /\ UNCHANGED <<jobs, uploads, intake, chat, sync, BRIEF_STORE>>
    /\ statusRes' = NoStatus

\* ------------------------------------------------------------------ status
\* src/api/status.js

\* x || null
OrNull(x) == IF x = "" THEN Null ELSE x

\* { id, status, brief: data.brief || null, error: data.error || null, updated_at }
RecordOf(row) ==
    [ id |-> row.id, status |-> row.status, brief |-> OrNull(row.brief),
      error |-> OrNull(row.error), updated_at |-> row.updated_at ]

\* The ids a status request can ask for: none (0), an id intake may have
\* issued, an id intake never issues.
UnknownId == MaxUploads + 1
QueryIds == { 0 } \cup Requests \cup { UnknownId }

\* .select(...).eq('id', jobId).limit(1).single(): the row, or an error when the
\* lookup fails or no row has the id.
Lookup(jobId, outcome) ==
    IF outcome = "ok" /\ jobId \in Requests /\ Exists(jobId)
    THEN jobs[jobId]
    ELSE NoJob

\* The handler stamping the row it has read.
StatusHandler_Touch(method, jobId, outcome) ==
    LET row == Lookup(jobId, outcome)
        answer(code, record) ==
            [ jobId |-> jobId, code |-> code, error |-> Null, record |-> record,
              origin |-> AllowedOrigin ]
    IN  IF method = "GET" /\ row # NoJob
        THEN [ jobs |-> [jobs EXCEPT ![jobId].updated_at = @ + 1],
               res |-> answer(200, RecordOf(row)) ]
        ELSE [ jobs |-> jobs, res |-> answer(500, NoRecord) ]

\* The whole handler: what it leaves in the job store and what it answers.
StatusHandler(method, jobId, outcome) ==
    LET row == Lookup(jobId, outcome)
        answer(code, error, record) ==
            [ jobId |-> jobId, code |-> code, error |-> error, record |-> record,
              origin |-> AllowedOrigin ]
    IN  [ jobs |-> jobs,
          res |->
             IF method = "OPTIONS" THEN answer(204, Null, NoRecord)
             ELSE IF method # "GET" THEN answer(405, "Method not allowed", NoRecord)
             ELSE IF jobId = 0 THEN answer(400, "jobId required", NoRecord)
             ELSE IF row = NoJob THEN answer(500, "status lookup failed", NoRecord)
             ELSE answer(200, Null, RecordOf(row)) ]

StatusRequest(method, jobId, outcome) ==
    /\ jobs' = StatusHandler(method, jobId, outcome).jobs
    /\ statusRes' = [prev |-> statusRes.last,
                     last |-> StatusHandler(method, jobId, outcome).res]
    /\ UNCHANGED <<uploads, intake, worker, chat, sync, BRIEF_STORE>>

\* ------------------------------------------------------------------ chat
\* src/unnamed/part_006 ("api/chat.js")

Absent == "ABSENT"

\* The request bodies: nothing, text that is not JSON, the JSON literal null,
\* and JSON objects with each of userMessage, briefId, brief absent or given.
ChatObjects ==
    [ userMessage : { Absent, "", " ", "What was held?" },
      briefId : { Absent, "b-1" },
      brief : { Absent, "", "FACTS ... RATIO ..." } ]

ChatBodies ==
    { [kind |-> k, json |-> [userMessage |-> Absent, briefId |-> Absent, brief |-> Absent]] :
          k \in { "empty", "malformed", "null" } }
        \cup { [kind |-> "object", json |-> o] : o \in ChatObjects }

\* A chat response: status code and the error / answer of its body; the
\* handler sets no header of its own.
ChatRes(code, error, answer) ==
    [code |-> code, error |-> error, answer |-> answer, origin |-> Null]

NoBody == [kind |-> "none", json |-> [userMessage |-> Absent, briefId |-> Absent, brief |-> Absent]]

IdleChat ==
    [ pc |-> "idle", method |-> Null, body |-> NoBody, userMessage |-> Absent,
      briefId |-> Absent, brief |-> Absent, context |-> Null, up |-> NoUp,
      calls |-> 0, res |-> ChatRes(0, Null, Null) ]

\* JSON.parse(body || "{}") and const { userMessage, briefId, brief } = parsed:
\* the three values, unless it threw (a SyntaxError, or the TypeError of
\* destructuring null).
ParseBody(body) ==
    [ threw |-> body.kind \in { "malformed", "null" },
      userMessage |-> body.json.userMessage,
      briefId |-> body.json.briefId,
      brief |-> body.json.brief ]

\* !x for a value that is absent or a string
Falsy(x) == x = Absent \/ x = ""

\* `Brief:\n${brief || "(brief not provided)"}`: the brief the prompt carries.
ContextOf(parsed) ==
    IF Falsy(parsed.brief) THEN "(brief not provided)" ELSE parsed.brief

ChatReceive(method, body) ==
    /\ chat.pc = "idle"
    /\ LET parsed == ParseBody(body)
           got == [chat EXCEPT !.method = method, !.body = body]
       IN  chat' =
              IF method # "POST" THEN
                  [got EXCEPT !.pc = "respond",
                              !.res = ChatRes(405, "Method not allowed", Null)]
              ELSE IF parsed.threw THEN
                  [got EXCEPT !.pc = "respond", !.res = ChatRes(500, "parse error", Null)]
              ELSE IF Falsy(parsed.userMessage) THEN
                  [got EXCEPT !.pc = "respond", !.userMessage = parsed.userMessage,
                              !.briefId = parsed.briefId, !.brief = parsed.brief,
                              !.res = ChatRes(400, "Missing userMessage", Null)]
              ELSE
                  [got EXCEPT !.pc = "fetch", !.userMessage = parsed.userMessage,
                              !.briefId = parsed.briefId, !.brief = parsed.brief,
                              !.context = ContextOf(parsed)]
    /\ UNCHANGED <<jobs, uploads, intake, worker, statusRes, sync, BRIEF_STORE>>

\* j.choices?.[0]?.message?.content || ""
AnswerOf(resp) == IF resp.kind = "content" THEN resp.body ELSE ""

\* The call repeated once after a non-success response.
ChatFetch_Retry(resp) ==
    /\ chat.pc = "fetch"
    /\ chat' =
          IF resp.kind = "status" /\ chat.calls = 0 THEN
              [chat EXCEPT !.calls = @ + 1, !.up = resp]
          ELSE IF ~resp.ok \/ resp.kind = "notjson" THEN
              [chat EXCEPT !.pc = "respond", !.calls = @ + 1, !.up = resp,
                           !.res = ChatRes(500, "OpenAI chat failed", Null)]
          ELSE
              [chat EXCEPT !.pc = "respond", !.calls = @ + 1, !.up = resp,
                           !.res = ChatRes(200, Null, AnswerOf(resp))]
    /\ UNCHANGED <<jobs, uploads, intake, worker, statusRes, sync, BRIEF_STORE>>

\* fetch("https://api.openai.com/v1/chat/completions", ...) and the reading of
\* its body
ChatFetch(resp) ==
    /\ chat.pc = "fetch"
    /\ chat' =
          IF resp.kind \in { "reject", "notjson" } THEN
              [chat EXCEPT !.pc = "respond", !.calls = @ + 1, !.up = resp,
                           !.res = ChatRes(500, "fetch failed", Null)]
          ELSE IF ~resp.ok THEN
              [chat EXCEPT !.pc = "respond", !.calls = @ + 1, !.up = resp,
                           !.res = ChatRes(500, "OpenAI chat failed", Null)]
          ELSE
              [chat EXCEPT !.pc = "respond", !.calls = @ + 1, !.up = resp,
                           !.res = ChatRes(200, Null, AnswerOf(resp))]
    /\ UNCHANGED <<jobs, uploads, intake, worker, statusRes, sync, BRIEF_STORE>>

\* res.status(...).json(...): the invocation is over.
ChatRespond ==
    /\ chat.pc = "respond"
    /\ chat' = IdleChat
    /\ UNCHANGED <<jobs, uploads, intake, worker, statusRes, sync, BRIEF_STORE>>

\* ------------------------------------------------------------------ upload
\* src/api/upload.js, lines 1-156 (the synchronous upload handler)

\* The slot of a briefId under which nothing was stored.
NoBrief == [brief |-> Null, text |-> Null, createdAt |-> NoTime]

\* A response of the handler: status code and the error / briefId / brief of
\* its body; the handler sets no header of its own.
SyncRes(code, error, briefId, brief) ==
    [code |-> code, error |-> error, briefId |-> briefId, brief |-> brief,
     origin |-> Null]

IdleSync ==
    [ pc |-> "idle", method |-> Null, type |-> Null, file |-> NoFile,
      text |-> Null, res |-> SyncRes(0, Null, 0, Null) ]

\* What the client sends: a multipart body as for the intake handler, or a
\* JSON body: text that is not JSON, JSON without file_url, or a file_url
\* (which names a file that can be fetched, or nothing that can).
SyncRequests ==
    { [type |-> "multipart", kind |-> u.kind, file |-> u.file] : u \in Uploads }
        \cup { [type |-> "json", kind |-> k, file |-> NoFile] :
                  k \in { "malformed", "nourl", "unreachable" } }
        \cup { [type |-> "json", kind |-> "url", file |-> f] : f \in Files }

\* The handler's end when something throws: the JSON branch runs inside the
\* handler's try and is answered 500; the multipart branch runs in the async
\* callback of form.parse, whose rejection nothing catches: no response.
SyncThrow(inv, message) ==
    IF inv.type = "json"
    THEN [inv EXCEPT !.pc = "respond", !.res = SyncRes(500, message, 0, Null)]
    ELSE [inv EXCEPT !.pc = "hung"]

SyncReceive(c, method, request, parsed) ==
    /\ sync[c].pc = "idle"
    /\ parsed \in IF request.type = "json" THEN { "file" } ELSE FormParse(request)
    /\ LET got == [sync[c] EXCEPT !.method = method]
           typed == [got EXCEPT !.type = request.type]
       IN  sync' = [sync EXCEPT ![c] =
              IF method # "POST" THEN
                  [got EXCEPT !.pc = "respond",
                              !.res = SyncRes(405, "Method not allowed", 0, Null)]
              ELSE IF request.type = "json" THEN
                  IF request.kind = "malformed" THEN
                      SyncThrow(typed, "Unexpected token")
                  ELSE IF request.kind = "nourl" THEN
                      [typed EXCEPT !.pc = "respond",
                          !.res = SyncRes(400, "Missing file_url in JSON body", 0, Null)]
                  ELSE
                      [typed EXCEPT !.pc = "extract", !.file = request.file]
              ELSE IF parsed = "err" THEN
                  [typed EXCEPT !.pc = "respond", !.file = request.file,
                                !.res = SyncRes(500, "File upload failed", 0, Null)]
              ELSE IF parsed = "nofile" THEN
                  [typed EXCEPT !.pc = "respond",
                      !.res = SyncRes(400, "No file uploaded (field name 'file')", 0, Null)]
              ELSE
                  [typed EXCEPT !.pc = "extract", !.file = request.file]]
    /\ UNCHANGED <<jobs, uploads, intake, worker, statusRes, chat, BRIEF_STORE>>

\* extractTextFromPdfBuffer / extractTextFromDocxBuffer chosen by the end of the
\* lower-cased name; without a known extension, pdf first and docx if that
\* throws.  The text, or "THROW".
SyncExtractText(filename, buf) ==
    LET ext == Ext(filename)
    IN  IF ext = "pdf" THEN ParseDocument(buf)
        ELSE IF ext = "docx" \/ ext = "doc" THEN ParseDocument(buf)
        ELSE LET pdf == ParseDocument(buf)
             IN  IF pdf = "THROW" THEN ParseDocument(buf) ELSE pdf

\* fetchBufferFromUrl(file_url) or fs.readFileSync(file.filepath), then the
\* extraction.
SyncExtract(c) ==
    /\ sync[c].pc = "extract"
    /\ LET text == SyncExtractText(sync[c].file.name, sync[c].file.data)
       IN  sync' = [sync EXCEPT ![c] =
              IF sync[c].file = NoFile THEN SyncThrow(@, "Failed to fetch file")
              ELSE IF text = "THROW" THEN SyncThrow(@, "parse error")
              ELSE [@ EXCEPT !.pc = "summarize", !.text = text]]
    /\ UNCHANGED <<jobs, uploads, intake, worker, statusRes, chat, BRIEF_STORE>>

\* The completions, with one more whose content is white space only.
SyncCompletions ==
    Completions \cup { [ok |-> TRUE, kind |-> "content", body |-> "  "] }

\* String.prototype.trim()
Trim(text) == IF text = "  " THEN "" ELSE text

\* j.choices?.[0]?.message?.content?.trim() ?? ""
SyncBriefOf(resp) == IF resp.kind = "content" THEN Trim(resp.body) ELSE ""

\* An identifier that is always the same: the first one.
FreshBriefId_Fixed == CHOOSE b \in BriefIds : \A a \in BriefIds : b <= a

\* uuidv4(): an identifier under which nothing was stored yet.
FreshBriefId ==
    CHOOSE b \in BriefIds :
        /\ BRIEF_STORE[b] = NoBrief
        /\ \A a \in BriefIds : BRIEF_STORE[a] = NoBrief => b <= a

\* Date.now(): the clock of the instance; it has advanced with every entry.
DateNow == Cardinality({ b \in BriefIds : BRIEF_STORE[b] # NoBrief })

\* callOpenAiSummarize(textForModel), then BRIEF_STORE[briefId] = {...} and
\* res.json({ briefId, brief }) with no await between them.
SyncSummarize(c, resp) ==
    /\ sync[c].pc = "summarize"
    /\ IF resp.kind \in { "reject", "notjson" } \/ ~resp.ok THEN
           /\ sync' = [sync EXCEPT ![c] = SyncThrow(@, "OpenAI summarize failed")]
           /\ UNCHANGED BRIEF_STORE
       ELSE
           LET brief == SyncBriefOf(resp)
               briefId == FreshBriefId
           IN  /\ BRIEF_STORE' = [BRIEF_STORE EXCEPT ![briefId] =
                      [brief |-> brief, text |-> sync[c].text, createdAt |-> DateNow]]
               /\ sync' = [sync EXCEPT ![c].pc = "respond",
                                       ![c].res = SyncRes(200, Null, briefId, brief)]
    /\ UNCHANGED <<jobs, uploads, intake, worker, statusRes, chat>>

\* The response is out: the invocation is over.
SyncRespond(c) ==
    /\ sync[c].pc = "respond"
    /\ sync' = [sync EXCEPT ![c].pc = "finished"]
    /\ UNCHANGED <<jobs, uploads, intake, worker, statusRes, chat, BRIEF_STORE>>

\* ------------------------------------------------------------------ system
Init ==
    /\ jobs = [j \in Requests |-> NoJob]
    /\ uploads = {}
    /\ intake = IdleIntake(0)
    /\ worker = [w \in Workers |-> IdleWorker]
    /\ statusRes = NoStatus
    /\ chat = IdleChat
    /\ sync = [c \in Callers |-> IdleSync]
    /\ BRIEF_STORE = [b \in BriefIds |-> NoBrief]

Next ==
    \/ \E m \in Methods, u \in Uploads, p \in { "err", "nofile", "file" } :
          IntakeReceive(m, u, p)
    \/ \E o \in StorageOutcomes : IntakeUpload(o)
    \/ \E o \in InsertOutcomes : IntakeInsert(o)
    \/ IntakeRespond
    \/ \E w \in Workers, m \in { "GET", "OPTIONS" }, o \in { "ok", "error" },
          j \in Requests \cup { 0 } : WorkerStart(w, m, o, j)
    \/ \E w \in Workers : WorkerMarkProcessing(w)
    \/ \E w \in Workers, o \in { "ok", "error" } : WorkerDownload(w, o)
    \/ \E w \in Workers : WorkerFailDownload(w)
    \/ \E w \in Workers : WorkerFailNoText(w)
    \/ \E w \in Workers, c \in Completions : WorkerSummarize(w, c)
    \/ \E w \in Workers : WorkerFailUpstream(w)
    \/ \E w \in Workers : WorkerMarkDone(w)
    \/ \E w \in Workers : WorkerRespond(w)

Spec == Init /\ [][Next]_vars

\* The pipeline with the status handler polled by a client, while a single
\* worker invocation runs: the other invocations are over.
InitStatus ==
    /\ jobs = [j \in Requests |-> NoJob]
    /\ uploads = {}
    /\ intake = IdleIntake(0)
    /\ worker = [w \in Workers |->
                    IF w = 1 THEN IdleWorker ELSE [IdleWorker EXCEPT !.pc = "finished"]]
    /\ statusRes = NoStatus
    /\ chat = IdleChat
    /\ sync = [c \in Callers |-> IdleSync]
    /\ BRIEF_STORE = [b \in BriefIds |-> NoBrief]

\* The status requests: the method, the jobId of the query string (read by GET
\* alone) and whether the lookup works (GET with a jobId alone performs it).
StatusInputs ==
    { <<m, 0, "ok">> : m \in Methods }
        \cup { <<"GET", j, o>> : j \in QueryIds \ { 0 }, o \in { "ok", "error" } }

NextStatus ==
    \/ Next
    \/ \E i \in StatusInputs : StatusRequest(i[1], i[2], i[3])

SpecStatus == InitStatus /\ [][NextStatus]_vars

\* The chat handler serving one request after the other.
NextChat ==
    \/ \E m \in Methods, b \in ChatBodies : ChatReceive(m, b)
    \/ \E c \in Completions : ChatFetch(c)
    \/ ChatRespond

SpecChat == Init /\ [][NextChat]_vars

\* The synchronous upload handler serving concurrent requests in one instance.
NextUpload ==
    \/ \E c \in Callers, m \in Methods, r \in SyncRequests,
          p \in { "err", "nofile", "file" } : SyncReceive(c, m, r, p)
    \/ \E c \in Callers : SyncExtract(c)
    \/ \E c \in Callers, r \in SyncCompletions : SyncSummarize(c, r)
    \/ \E c \in Callers : SyncRespond(c)

SpecUpload == Init /\ [][NextUpload]_vars

\* Every awaited operation of an invocation settles (the read, the parsers and
\* the fetch resolve or reject), and a response handed to res.json is sent.
FairUpload ==
    \A c \in Callers :
        /\ WF_vars(SyncExtract(c))
        /\ WF_vars(\E r \in SyncCompletions : SyncSummarize(c, r))
        /\ WF_vars(SyncRespond(c))

SpecUploadFair == SpecUpload /\ FairUpload

\* The chat handler next to the synchronous upload handler, whose briefs the
\* chat requests refer to.
NextBrief ==
    \/ NextUpload
    \/ NextChat

SpecBrief == Init /\ [][NextBrief]_vars

\* ------------------------------------------------------------------ claims

\* The intake invocation is about to send the success response.
IntakeAccepted == intake.pc = "respond" /\ intake.res.code = 200

\* Invocation w has selected job j (and keeps it as its job).
Selected(w, j) == worker[w].job.id = j

\* Invocation w has marked job j processing.
Marked(w, j) == Selected(w, j) /\ worker[w].pc \notin { "idle", "claim" }

\* Invocation w is between selecting job j and its last write to that row.
AtWork(w, j) ==
    /\ Selected(w, j)
    /\ worker[w].pc \in { "claim", "download", "fail_download", "fail_notext",
                          "summarize", "fail_upstream", "mark_done" }

\* C1, as stated: whenever the intake handler answers a POST upload with the
\* success response, the response carries the jobId and a row with that id
\* and status pending is in the job store at that moment.
C1_PendingAtResponse ==
    IntakeAccepted =>
        /\ intake.res.jobId = intake.jobId
        /\ Exists(intake.res.jobId)
        /\ jobs[intake.res.jobId].status = "pending"

\* C1, amended: whenever the intake handler answers a POST upload with the
\* success response, the response carries the jobId, a row with that id is in
\* the job store at that moment, and its status is pending unless a worker
\* invocation has selected the job in the meantime.
C1_JobExistsAtResponse ==
    IntakeAccepted =>
        /\ intake.res.jobId = intake.jobId
        /\ Exists(intake.res.jobId)
        /\ jobs[intake.res.jobId].id = intake.res.jobId
        /\ \/ jobs[intake.res.jobId].status = "pending"
           \/ \E w \in Workers : Selected(w, intake.res.jobId)

C1_Witness ==
    /\ IntakeAccepted
    /\ jobs[intake.res.jobId].status = "processing"

\* C2: no two worker invocations take the same job out of pending: for every
\* job at most one invocation has marked it processing.
C2_AtMostOneClaim ==
    \A j \in Requests : Cardinality({ w \in Workers : Marked(w, j) }) <= 1

\* C3: every job's status is one of pending, processing, done, failed, and a
\* job written done is never written failed later, nor a failed one done.
C3_OneTerminalOutcome ==
    /\ [](\A j \in Requests : Exists(j) => jobs[j].status \in JobStatuses)
    /\ [][\A j \in Requests :
            /\ jobs[j].status = "done" => jobs'[j].status # "failed"
            /\ jobs[j].status = "failed" => jobs'[j].status # "done"]_vars

\* The transitions of the per-job state machine (a row's creation included).
Transitions ==
    { <<"absent", "pending">>, <<"pending", "processing">>,
      <<"processing", "done">>, <<"processing", "failed">> }

\* C4: every status change of a job is pending -> processing, processing ->
\* done or processing -> failed; done and failed are never left, and no job
\* returns to pending or processing.
C4_StateMachine ==
    [][\A j \in Requests :
          jobs'[j].status # jobs[j].status =>
              <<jobs[j].status, jobs'[j].status>> \in Transitions]_vars

\* C5: brief is set only when status is done, error is set only when status
\* is failed, and no job has both set.
C5_FieldsMatchStatus ==
    \A j \in Requests :
        /\ jobs[j].brief # Null => jobs[j].status = "done"
        /\ jobs[j].error # Null => jobs[j].status = "failed"
        /\ ~(jobs[j].brief # Null /\ jobs[j].error # Null)

\* C6: when an invocation's extraction yields empty or white-space-only text
\* it makes no summarization call and answers after writing failed with a
\* non-empty error, and once no invocation is at work on the job any more the
\* job is failed with a non-empty error; no job is ever done with an empty
\* brief.
C6_EmptyTextFails ==
    /\ \A w \in Workers :
          worker[w].text \in { "", "  " } =>
              /\ ~worker[w].fetched
              /\ worker[w].pc \in { "fail_notext", "respond", "finished" }
              /\ worker[w].pc \in { "respond", "finished" } =>
                    /\ worker[w].res.error = "no text extracted"
                    /\ (\A v \in Workers : ~AtWork(v, worker[w].job.id)) =>
                          /\ jobs[worker[w].job.id].status = "failed"
                          /\ jobs[worker[w].job.id].error \notin { Null, "" }
    /\ \A j \in Requests :
          jobs[j].status = "done" => jobs[j].brief \notin { Null, "" }

C6_Witness ==
    \E w \in Workers :
        /\ worker[w].pc = "finished"
        /\ worker[w].text = "  "
        /\ jobs[worker[w].job.id].status = "failed"
        /\ jobs[worker[w].job.id].error = "no text extracted"

\* The request the chat invocation is serving is valid JSON (or nothing) that
\* carries no userMessage, or an empty one.
NoUserMessage ==
    /\ chat.body.kind \in { "empty", "null", "object" }
    /\ chat.body.json.userMessage \in { Absent, "" }

\* C7: a chat request whose userMessage is missing or empty is answered with
\* a client error (4xx), and the summarization service is not called for it.
C7_EmptyQuestionRejected ==
    NoUserMessage =>
        /\ chat.pc = "respond"
        /\ chat.calls = 0
        /\ chat.res.code \in 400 .. 499

\* C8: a status request changes neither the job store nor the blob store,
\* and two successive status requests for the same jobId, with no step of
\* another handler between them, return identical records.
C8_StatusReadOnly ==
    /\ [][statusRes'.last.code # 0 => jobs' = jobs /\ uploads' = uploads]_vars
    /\ [](( /\ statusRes.prev.code = 200
            /\ statusRes.last.code = 200
            /\ statusRes.prev.jobId = statusRes.last.jobId )
              => statusRes.prev.record = statusRes.last.record)

C8_Witness ==
    /\ statusRes.prev.code = 200
    /\ statusRes.last.code = 200
    /\ statusRes.prev.jobId = statusRes.last.jobId
    /\ statusRes.last.record.status = "processing"

\* Invocation w, alone on its job, got a successful completion with content
\* and has written its outcome.
SucceededAlone(w) ==
    /\ worker[w].pc \in { "respond", "finished" }
    /\ worker[w].text \notin { Null, "", "  " }
    /\ worker[w].up.ok
    /\ worker[w].up.kind = "content"
    /\ \A v \in Workers \ { w } : ~Selected(v, worker[w].job.id)

\* C9: when a worker invocation runs alone on a pending job with extractable
\* text and the summarization succeeds, the job ends done with the returned
\* text as brief, and a following status request for the job returns status
\* done, that brief and a null error.
C9_DoneWithReturnedBrief ==
    \A w \in Workers :
        SucceededAlone(w) =>
            LET j == worker[w].job.id
            IN  /\ jobs[j].status = "done"
                /\ jobs[j].brief = worker[w].up.body
                /\ worker[w].res.code = 200
                /\ (statusRes.last.code = 200 /\ statusRes.last.jobId = j) =>
                      /\ statusRes.last.record.id = j
                      /\ statusRes.last.record.status = "done"
                      /\ statusRes.last.record.brief = worker[w].up.body
                      /\ statusRes.last.record.error = Null

C9_Witness ==
    \E w \in Workers :
        /\ SucceededAlone(w)
        /\ worker[w].pc = "finished"
        /\ statusRes.last.code = 200
        /\ statusRes.last.jobId = worker[w].job.id
        /\ statusRes.last.record.brief = "Facts Issues Holding"

\* C10: an upload of a file without bytes is rejected by the intake handler
\* with a client error (4xx), and neither a blob nor a job row is created.
C10_EmptyFileRejected ==
    /\ intake.file.data = "zero" =>
          /\ intake.pc = "respond"
          /\ intake.res.code \in 400 .. 499
    /\ \A b \in uploads : b.data # "zero"
    /\ \A j \in Requests :
          Exists(j) => \A b \in uploads : b.path = jobs[j].path => b.data # "zero"

\* The job store holds no row with this id.
NotInStore(jobId) == ~(jobId \in Requests /\ Exists(jobId))

\* C11: a status request for a job identifier that is not in the job store gets
\* a response that differs, in status code or in error message, from the
\* response given when the lookup itself fails.
C11_NotFoundDistinguishable ==
    \A jobId \in QueryIds \ { 0 } :
        NotInStore(jobId) =>
            LET notFound == StatusHandler("GET", jobId, "ok").res
                lookupFailed == StatusHandler("GET", jobId, "error").res
            IN  \/ notFound.code # lookupFailed.code
                \/ notFound.error # lookupFailed.error

\* A code of the client-error class.
ClientError(code) == code \in 400 .. 499

\* The request the intake invocation serves fails validation: its method is
\* neither POST nor the OPTIONS of a preflight, or it is a POST without a file.
IntakeInvalid(inv) ==
    \/ inv.method \notin { Null, "POST", "OPTIONS" }
    \/ inv.method = "POST" /\ inv.file = NoFile

\* Such a request to the intake handler gets a client error, and the step that
\* serves it changes neither store.
IntakeValidation ==
    /\ [](IntakeInvalid(intake) =>
            intake.pc = "respond" /\ ClientError(intake.res.code))
    /\ [][(intake' # intake /\ IntakeInvalid(intake')) =>
            jobs' = jobs /\ uploads' = uploads]_vars

\* The request the chat invocation serves fails validation: its method is
\* neither POST nor OPTIONS, or it is a POST that carries no userMessage.
ChatInvalid(inv) ==
    \/ inv.method \notin { Null, "POST", "OPTIONS" }
    \/ /\ inv.method = "POST"
       /\ inv.body.kind \in { "empty", "null", "object" }
       /\ inv.body.json.userMessage \in { Absent, "" }

\* Such a request to the chat handler gets a client error without a call of
\* the summarization service, and the step that serves it changes no store.
ChatValidation ==
    /\ [](ChatInvalid(chat) =>
            chat.pc = "respond" /\ chat.calls = 0 /\ ClientError(chat.res.code))
    /\ [][(chat' # chat /\ ChatInvalid(chat')) =>
            jobs' = jobs /\ uploads' = uploads]_vars

\* C12: a request with a bad method or without a file to the intake handler,
\* and a request with a bad method or without a userMessage to the chat
\* handler, each get a client error response, while the job store and the blob
\* store stay unchanged and no summarization call is made.
C12_ValidationNoSideEffect == IntakeValidation /\ ChatValidation

\* Every response of the intake handler carries the allowed-origin header, and
\* a preflight is answered 204 without a write to either store.
IntakeCors ==
    /\ [](intake.pc = "respond" =>
            /\ intake.res.origin # Null
            /\ intake.method = "OPTIONS" => intake.res.code = 204)
    /\ [][(intake' # intake /\ intake'.method = "OPTIONS") =>
            jobs' = jobs /\ uploads' = uploads]_vars

\* The same for every worker invocation; a preflight makes no summarization
\* call either.
WorkerCors ==
    /\ [](\A w \in Workers :
            worker[w].pc \in { "respond", "finished" } =>
                /\ worker[w].res.origin # Null
                /\ worker[w].method = "OPTIONS" =>
                      worker[w].res.code = 204 /\ ~worker[w].fetched)
    /\ [][\A w \in Workers :
            (worker'[w] # worker[w] /\ worker'[w].method = "OPTIONS") =>
                jobs' = jobs /\ uploads' = uploads]_vars

\* The same for the status handler, whatever it is asked.
StatusCors ==
    [](\A i \in StatusInputs :
          LET served == StatusHandler(i[1], i[2], i[3])
          IN  /\ served.res.origin # Null
              /\ i[1] = "OPTIONS" => served.res.code = 204 /\ served.jobs = jobs)

\* The same for the chat handler.
ChatCors ==
    /\ [](chat.pc = "respond" =>
            /\ chat.res.origin # Null
            /\ chat.method = "OPTIONS" => chat.res.code = 204 /\ chat.calls = 0)
    /\ [][(chat' # chat /\ chat'.method = "OPTIONS") =>
            jobs' = jobs /\ uploads' = uploads]_vars

\* C13: every endpoint (intake, worker, status, chat) sets the allowed-origin
\* header on every response it sends, and answers an OPTIONS preflight with
\* 204 without touching the job store, the blob store or the summarization
\* service.
C13_CorsEverywhere == IntakeCors /\ WorkerCors /\ StatusCors /\ ChatCors

\* The brief the upload handler stored under the identifier a chat request
\* names ("b-1" is the first identifier it issues), or Null.
StoredBrief(briefId) == IF briefId = "b-1" THEN BRIEF_STORE[1].brief ELSE Null

\* C14: when the chat handler is called with a briefId and no inline brief,
\* the grounding context sent to the summarization service is the brief stored
\* under that identifier; when called with an inline brief, the context is
\* exactly that inline brief.
C14_GroundedInBrief ==
    chat.context # Null =>
        /\ ~Falsy(chat.brief) => chat.context = chat.brief
        /\ (chat.brief = Absent /\ StoredBrief(chat.briefId) # Null) =>
              chat.context = StoredBrief(chat.briefId)

\* Invocation c of the synchronous upload handler has answered, or is about
\* to answer, with the success response.
SyncAccepted(c) ==
    sync[c].pc \in { "respond", "finished" } /\ sync[c].res.code = 200

\* C15: every successful response of the synchronous upload handler carries a
\* briefId and a brief, the brief store maps that briefId to exactly the
\* returned brief when the response is sent, and it still does after any
\* other successful upload: distinct uploads get distinct entries.
C15_BriefStored ==
    /\ \A c \in Callers :
          SyncAccepted(c) =>
              /\ sync[c].res.briefId \in BriefIds
              /\ sync[c].res.brief # Null
              /\ BRIEF_STORE[sync[c].res.briefId].brief = sync[c].res.brief
              /\ BRIEF_STORE[sync[c].res.briefId].text = sync[c].text
    /\ \A c, d \in Callers :
          (c # d /\ SyncAccepted(c) /\ SyncAccepted(d)) =>
              sync[c].res.briefId # sync[d].res.briefId

C15_Witness ==
    \E c, d \in Callers :
        /\ SyncAccepted(c) /\ sync[c].pc = "finished" /\ sync[c].type = "multipart"
        /\ SyncAccepted(d) /\ sync[d].pc = "respond" /\ sync[d].type = "json"
        /\ sync[c].res.brief # sync[d].res.brief

\* No job is pending.
NonePending == \A j \in Requests : jobs[j].status # "pending"

\* C16: a worker invocation writes to at most one job: a row changes only in
\* a step of an invocation that has selected it, an invocation keeps the one
\* job it selected, and an invocation that finds no pending job answers with
\* the no-op result and leaves the job store unchanged.
C16_WritesOnlySelectedJob ==
    [][ /\ \A j \in Requests :
              (Exists(j) /\ jobs'[j] # jobs[j]) =>
                  \E w \in Workers : worker'[w] # worker[w] /\ Selected(w, j)
        /\ \A w \in Workers :
              /\ worker[w].job # NoJob => worker'[w].job = worker[w].job
              /\ ( /\ worker[w].pc = "idle"
                   /\ worker'[w].pc # "idle"
                   /\ worker'[w].method # "OPTIONS"
                   /\ NonePending ) =>
                     /\ worker'[w].job = NoJob
                     /\ jobs' = jobs
                     /\ \/ worker'[w].res = WorkerRes(200, Null, "no pending jobs", 0)
                        \/ worker'[w].res = WorkerRes(500, "job fetch failed", Null, 0)
              /\ (worker[w].job = NoJob /\ worker[w].pc # "idle"
                    /\ worker'[w] # worker[w]) => jobs' = jobs ]_vars

C16_Witness ==
    /\ \E w \in Workers :
          /\ worker[w].pc = "finished"
          /\ worker[w].job.id = 1
          /\ jobs[1].status = "done"
    /\ \E v \in Workers :
          /\ worker[v].pc = "finished"
          /\ worker[v].res.message = "no pending jobs"
    /\ jobs[2] = NewJob(2, <<"b", "DOCX">>, 1)

\* C17: the job a worker invocation selects is pending at selection time and
\* its created_at is the earliest among the jobs pending at that time; a job
\* that is processing, done or failed is never selected.
C17_SelectsOldestPending ==
    [][\A w \in Workers :
          (worker[w].pc = "idle" /\ worker'[w].job # NoJob) =>
              LET j == worker'[w].job.id
              IN  /\ j \in Requests
                  /\ jobs[j].status = "pending"
                  /\ worker'[w].job = jobs[j]
                  /\ \A k \in Requests :
                        jobs[k].status = "pending" =>
                            jobs[j].created_at <= jobs[k].created_at]_vars

C17_Witness ==
    \E w \in Workers :
        /\ worker[w].pc = "claim"
        /\ worker[w].job.id = 2
        /\ jobs[1].status = "failed"
        /\ jobs[2].status = "pending"

\* Invocation w is past its write of processing and has not written a
\* terminal status: it is at the download and extraction or at the
\* summarization call, or one of these threw and it answers 'worker error'.
NoTerminalWrite(w) ==
    /\ worker[w].job # NoJob
    /\ \/ worker[w].pc \in { "download", "summarize" }
       \/ /\ worker[w].pc \in { "respond", "finished" }
          /\ worker[w].res.error = "worker error"

\* C18: an invocation writes processing before the download, the extraction
\* and the summarization call, so while it is at one of those steps, and when
\* it stops there without a terminal write, its job is in processing and not
\* in pending.
C18_ProcessingBeforeWork ==
    \A w \in Workers :
        NoTerminalWrite(w) => jobs[worker[w].job.id].status = "processing"

\* The part of C18 that does not depend on who else works on the job: past
\* its write of processing, an invocation's job is never pending.
C18_NeverPendingAgain ==
    \A w \in Workers :
        (worker[w].job # NoJob /\ worker[w].pc \notin { "idle", "claim" }) =>
            jobs[worker[w].job.id].status # "pending"

\* C19: whenever a worker invocation that has claimed a job answers with an
\* error, whatever its cause, the job is in status failed with an error
\* recorded at the moment the response is sent.
C19_ErrorsRecordedOnJob ==
    \A w \in Workers :
        ( /\ worker[w].pc = "respond"
          /\ worker[w].job # NoJob
          /\ worker[w].res.error # Null ) =>
            /\ jobs[worker[w].job.id].status = "failed"
            /\ jobs[worker[w].job.id].error # Null

\* Invocation w got a non-success response from the summarization service.
UpstreamRefused(w) == worker[w].up.kind = "status"

\* C20: when the summarization service answers a worker's call with a
\* non-success response, the invocation marks the job failed with the
\* response body as its error, writes no brief, and answers its caller with
\* a server error (5xx).
C20_UpstreamFailureRecorded ==
    /\ [](\A w \in Workers :
            UpstreamRefused(w) =>
                /\ worker[w].pc \in { "fail_upstream", "respond", "finished" }
                /\ worker[w].pc # "fail_upstream" => worker[w].res.code \in 500 .. 599)
    /\ [][\A w \in Workers :
            (UpstreamRefused(w) /\ worker[w].pc = "fail_upstream"
                /\ worker'[w] # worker[w]) =>
                LET j == worker[w].job.id
                IN  /\ jobs'[j].status = "failed"
                    /\ jobs'[j].error = worker[w].up.body
                    /\ jobs'[j].brief = jobs[j].brief
                    /\ \A k \in Requests \ { j } : jobs'[k] = jobs[k]]_vars

C20_Witness ==
    \E w \in Workers :
        /\ UpstreamRefused(w)
        /\ worker[w].pc = "respond"
        /\ worker[w].res.code = 500
        /\ jobs[worker[w].job.id].status = "failed"
        /\ jobs[worker[w].job.id].error = "rate limited"
        /\ jobs[worker[w].job.id].brief = Null

\* The blob the intake invocation wrote, or was to write, is in the blob store.
BlobWritten(inv) == \E b \in uploads : b.path = Key(inv.jobId, inv.file.name)

\* The step is the intake invocation's blob write failing.
UploadFails == intake.pc = "upload" /\ intake'.pc = "respond"

\* The step is the intake invocation's job insert failing.
InsertFails == intake.pc = "insert" /\ intake'.pc = "respond" /\ jobs' = jobs

\* C21: in the intake handler a failed blob write is answered with a server
\* error and no job row is created; a failed job insert after a successful
\* blob write is answered with a different server error while the blob stays
\* in the blob store; in neither case does the response carry a jobId.
C21_PartialFailure ==
    /\ [][ /\ UploadFails =>
                /\ intake'.res.code \in 500 .. 599
                /\ intake'.res.error \in { "Storage upload failed", "Server error" }
                /\ intake'.res.jobId = 0
                /\ jobs' = jobs /\ uploads' = uploads
           /\ InsertFails =>
                /\ intake'.res.code \in 500 .. 599
                /\ intake'.res.error \notin { "Storage upload failed", "Server error" }
                /\ intake'.res.jobId = 0
                /\ uploads' = uploads ]_vars
    /\ [](( intake.pc = "respond" /\ intake.res.code \in 500 .. 599 ) =>
            /\ ~Exists(intake.jobId)
            /\ intake.res.error = "Job create failed" => BlobWritten(intake))

C21_Witness ==
    /\ intake.pc = "respond"
    /\ intake.res = Res(500, "Job create failed", 0)
    /\ intake.file.data = "text"
    /\ BlobWritten(intake)
    /\ ~Exists(intake.jobId)

\* C22: a chat request makes at most one call to the summarization service;
\* if the call returns a non-success response the chat response is a server
\* error without an answer; and no step of the chat handler changes the job
\* store (or the blob store).
C22_OneCallNoPartialAnswer ==
    /\ [](chat.calls <= 1)
    /\ [](( chat.pc = "respond" /\ chat.up.kind = "status" ) =>
            /\ chat.calls = 1
            /\ chat.res.code \in 500 .. 599
            /\ chat.res.answer = Null)
    /\ [][chat' # chat => jobs' = jobs /\ uploads' = uploads]_vars

C22_Witness ==
    /\ chat.pc = "respond"
    /\ chat.up = [ok |-> FALSE, kind |-> "status", body |-> "rate limited"]
    /\ chat.calls = 1
    /\ chat.res = ChatRes(500, "OpenAI chat failed", Null)

\* C23: every POST request to the synchronous upload handler eventually gets
\* a response, and only one, on the JSON path and on the multipart path,
\* whatever throws on the way.
C23_EveryPostAnswered ==
    /\ \A c \in Callers :
          (sync[c].method = "POST") ~> (sync[c].pc = "finished")
    /\ [][\A c \in Callers : sync[c].pc = "finished" => sync'[c] = sync[c]]_vars

\* The same for the JSON path alone.
C23_JsonPostAnswered ==
    \A c \in Callers :
        (sync[c].method = "POST" /\ sync[c].type = "json") ~> (sync[c].pc = "finished")

====
